---------------------------- MODULE Spec2Model ----------------------------
(***************************************************************************)
(* A model of fin_jobs_aggregator.py: the per-site crawl (crawl_site), the *)
(* page extractor (extract_jobs_from_html), the pagination resolver        *)
(* (find_next_url) and the top-level driver (main).                        *)
(*                                                                         *)
(* Python strings are sequences of one-character strings, so that          *)
(* str.strip, str.lower, re.sub and urljoin are computed, not assumed.     *)
(* Python's None is the one-element sequence None (no string of the model  *)
(* has an element of more than one character, so None is no string).       *)
(***************************************************************************)
EXTENDS Integers, Sequences, FiniteSets, TLC

None == <<"<None>">>

\* Python truthiness of an Optional[str]: None and "" are falsy.
Truthy(s) == s # None /\ s # <<>>

\* ------------------------------------------------------------ strings

UpperChars == <<"A","B","E","J","L","N","S","T","U","X">>
LowerChars == <<"a","b","e","j","l","n","s","t","u","x">>

\* str.lower on one character.
LowerChar(c) ==
    IF \E i \in 1..Len(UpperChars) : UpperChars[i] = c
    THEN LowerChars[CHOOSE i \in 1..Len(UpperChars) : UpperChars[i] = c]
    ELSE c

\* str.lower
Lower(s) == [i \in 1..Len(s) |-> LowerChar(s[i])]

\* The characters \s and str.strip treat as whitespace.
IsSpace(c) == c \in {" ", "\t", "\n"}

RECURSIVE LStrip(_)
LStrip(s) == IF s # <<>> /\ IsSpace(Head(s)) THEN LStrip(Tail(s)) ELSE s

RECURSIVE RStrip(_)
RStrip(s) ==
    IF s # <<>> /\ IsSpace(s[Len(s)]) THEN RStrip(SubSeq(s, 1, Len(s) - 1)) ELSE s

\* str.strip
Strip(s) == RStrip(LStrip(s))

\* re.sub(r"\s+", " ", s): every maximal run of whitespace becomes one space.
RECURSIVE CollapseSpace(_)
CollapseSpace(s) ==
    IF s = <<>> THEN <<>>
    ELSE IF IsSpace(Head(s))
         THEN <<" ">> \o CollapseSpace(LStrip(s))
         ELSE <<Head(s)>> \o CollapseSpace(Tail(s))

\* normalize_space(s) = re.sub(r"\s+", " ", s or "").strip()
normalize_space(s) == Strip(CollapseSpace(IF s = None THEN <<>> ELSE s))

\* Whether p occurs in s as a contiguous substring (Python's `p in s`, and
\* re.search for a pattern of literal characters).
IsSubstring(p, s) ==
    \E i \in 0..(Len(s) - Len(p)) : SubSeq(s, i + 1, i + Len(p)) = p

\* re.compile(p) raises re.error on a malformed pattern. The patterns of the
\* model are literal characters, or hold an unbalanced parenthesis: those are
\* the malformed ones.
ReCompiles(p) == \A i \in 1..Len(p) : p[i] # "("

\* re.compile(p).search(s), for a pattern that compiles.
ReSearch(p, s) == IsSubstring(p, s)

\* re.compile(p, re.I).search(s)
ReSearchI(p, s) == IsSubstring(Lower(p), Lower(s))

\* The index of the last "/" of s, 0 when it has none.
LastSlash(s) ==
    IF \E i \in 1..Len(s) : s[i] = "/"
    THEN CHOOSE i \in 1..Len(s) : s[i] = "/" /\ \A j \in (i+1)..Len(s) : s[j] # "/"
    ELSE 0

\* urllib.parse.urljoin(base, url) on the URLs of the model (no scheme, no
\* host, no query, no dot segments): an empty base gives url unchanged and
\* an empty url gives base; otherwise url is parsed, which drops its leading
\* whitespace, and then a rooted url replaces the base's path and a relative
\* url replaces the base's last path segment.
urljoin(base, url) ==
    IF base = <<>> THEN url
    ELSE IF LStrip(url) = <<>> THEN base
    ELSE IF Head(LStrip(url)) = "/" THEN LStrip(url)
    ELSE SubSeq(base, 1, LastSlash(base)) \o LStrip(url)

\* ------------------------------------------------------------ the page

(***************************************************************************)
(* A fetched page, as BeautifulSoup and the site's selectors see it:       *)
(*   cards   - the elements soup.select(container) yields, in document     *)
(*             order; a card maps each field key of the rule to what       *)
(*             card.select_one(<that selector>) yields: the element's text *)
(*             (for "link": its href, None when it has no href attribute), *)
(*             or NoEl when no element matches;                            *)
(*   anchors - the <a> elements of the page in document order, each with   *)
(*             its href (None: no href attribute), its text, whether its   *)
(*             rel attribute is "next" and whether next_selector matches.  *)
(***************************************************************************)
NoEl == <<"<NoEl>">>

FieldKeys == {"title", "company", "location", "link", "posted", "salary", "snippet"}

\* soupsieve raises SelectorSyntaxError on a malformed selector. The malformed
\* selectors of the model are those with an unclosed "[".
SelectorValid(sel) == \A i \in 1..Len(sel) : sel[i] # "["

\* parse_date(text): dateparser is an external collaborator. Here a text of
\* digits and dashes is a date in ISO form and parses to itself; any other
\* text does not parse.
parse_date(text) ==
    IF text # <<>> /\ \A i \in 1..Len(text) :
           text[i] \in {"0","1","2","3","4","5","6","7","8","9","-"}
    THEN text
    ELSE None

\* sel_text(node, sel), el being what node.select_one(sel) yields.
sel_text(el, sel) ==
    IF ~Truthy(sel) THEN <<>>
    ELSE normalize_space(IF el = NoEl THEN <<>> ELSE el)

\* sel_attr(node, sel, "href"), el being what node.select_one(sel) yields.
sel_attr(el, sel) ==
    IF ~Truthy(sel) THEN <<>>
    ELSE IF el = NoEl THEN <<>> ELSE el

\* Job(...): the dataclass.
Job(source, title, company, location, url, posted, posted_dt, salary, snippet) ==
    [source |-> source, title |-> title, company |-> company,
     location |-> location, url |-> url, posted |-> posted,
     posted_dt |-> posted_dt, salary |-> salary, snippet |-> snippet]

\* Job.key()
key(j) == Lower(Strip(j.url))

\* CardAdmitted without the test of the title.
CardAdmittedNoTitle(title, url) == Truthy(url)

\* The guard of the structured pass: a card is admitted only with a title
\* and a url.
CardAdmitted(title, url) == Truthy(title) /\ Truthy(url)

\* One iteration of `for card in soup.select(container_sel)`: the Job the
\* card contributes, as a sequence of zero or one Job.
CardJob(card, selectors, source_name, default_location) ==
    LET title    == sel_text(card.title, selectors.title)
        company  == sel_text(card.company, selectors.company)
        loc0     == sel_text(card.location, selectors.location)
        location == IF Truthy(loc0) THEN loc0
                    ELSE IF Truthy(default_location) THEN default_location
                    ELSE <<>>
        url0     == sel_attr(card.link, selectors.link)
        url      == IF Truthy(url0) THEN urljoin(selectors.base, url0) ELSE url0
        posted   == sel_text(card.posted, selectors.posted)
        salary   == sel_text(card.salary, selectors.salary)
        snippet  == sel_text(card.snippet, selectors.snippet)
    IN  IF CardAdmitted(title, url)
        THEN <<Job(source_name, title, company, location, url, posted,
                   IF Truthy(posted) THEN parse_date(posted) ELSE None,
                   salary, snippet)>>
        ELSE <<>>

\* The structured pass over all cards (when no selector raises).
RECURSIVE CardJobs(_, _, _, _)
CardJobs(cards, selectors, source_name, default_location) ==
    IF cards = <<>> THEN <<>>
    ELSE CardJob(Head(cards), selectors, source_name, default_location)
         \o CardJobs(Tail(cards), selectors, source_name, default_location)

\* The field selectors are applied to every card: a malformed one raises at
\* the first card.
CardRaises(selectors) ==
    \E k \in FieldKeys : Truthy(selectors[k]) /\ ~SelectorValid(selectors[k])

\* `not any(j.url == url for j in out)`: the fallback's test against what is
\* already in out.
NotCaptured(out, url) == \A i \in 1..Len(out) : out[i].url # url

\* The title of a fallback Posting.
FallbackTitle(text) ==
    IF Truthy(normalize_space(text)) THEN normalize_space(text)
    ELSE <<"J","o","b"," ","p","o","s","t","i","n","g">>

\* The fallback pass: `for a in soup.select("a[href]")`, out being the list
\* built so far. (Here and below a list that a loop builds is bound as the
\* element of a one-element set, which computes it once per iteration.)
RECURSIVE FallbackJobs(_, _, _, _, _, _)
FallbackJobs(anchors, out, pat, base, source_name, default_location) ==
    IF anchors = <<>> THEN out
    ELSE LET a    == Head(anchors)
             href == a.href
             url  == urljoin(base, href)
             skip == href = None \/ ~Truthy(href) \/ ~ReSearch(pat, href)
             j    == Job(source_name, FallbackTitle(a.text), <<>>,
                         IF Truthy(default_location) THEN default_location ELSE <<>>,
                         url, None, None, None, <<>>)
         IN  CHOOSE r \in
                 { FallbackJobs(Tail(anchors), o, pat, base, source_name,
                                default_location) :
                     o \in { IF ~skip /\ NotCaptured(out, url)
                             THEN Append(out, j) ELSE out } } : TRUE

\* Whether extract_jobs_from_html raises: soup.select on a malformed
\* container selector, select_one on a malformed field selector (at the
\* first card), re.compile on a malformed link_pattern.
ExtractRaises(page, selectors) ==
    \/ /\ Truthy(selectors.container)
       /\ \/ ~SelectorValid(selectors.container)
          \/ page.cards # <<>> /\ CardRaises(selectors)
    \/ Truthy(selectors.link_pattern) /\ ~ReCompiles(selectors.link_pattern)

\* extract_jobs_from_html(html, rules, source_name, default_location):
\* [raised |-> whether an exception escapes, jobs |-> the list returned].
extract_jobs_from_html(page, rules, source_name, default_location) ==
    LET selectors == rules.selectors
        out1 == IF Truthy(selectors.container)
                THEN CardJobs(page.cards, selectors, source_name, default_location)
                ELSE <<>>
        out2 == IF Truthy(selectors.link_pattern)
                THEN CHOOSE r \in
                         { FallbackJobs(page.anchors, o, selectors.link_pattern,
                                        selectors.base, source_name,
                                        default_location) : o \in { out1 } } : TRUE
                ELSE out1
    IN  IF ExtractRaises(page, selectors)
        THEN [raised |-> TRUE, jobs |-> <<>>]
        ELSE [raised |-> FALSE, jobs |-> out2]

\* ------------------------------------------------------------ pagination

\* The phrases of the text heuristic, in the order the code tries them.
NextPhrases ==
    << <<"S","e","u","r","a","a","v","a">>,
       <<"N","e","x","t">>,
       <<"N","ä","y","t","ä"," ","l","i","s","ä","ä">>,
       <<"L","o","a","d"," ","m","o","r","e">> >>

\* The first of the indices I of the elements that match, 0 when there is
\* none (select_one and find yield the first match in document order).
FirstIndex(I) ==
    IF I = {} THEN 0 ELSE CHOOSE i \in I : \A j \in I : i <= j

\* `el and el.get("href")` for the element at index i (0: no element).
HasHref(anchors, i) == i # 0 /\ Truthy(anchors[i].href)

\* The explicit-selector tier: soup.select_one(next_sel).
NextBySelector(anchors) == FirstIndex({ i \in 1..Len(anchors) : anchors[i].sel })

\* The rel=next tier: soup.select_one('a[rel="next"]').
NextByRel(anchors) == FirstIndex({ i \in 1..Len(anchors) : anchors[i].rel })

\* soup.find("a", string=re.compile(txt, re.I)) for one phrase.
FindByText(anchors, txt) ==
    FirstIndex({ i \in 1..Len(anchors) : ReSearchI(txt, anchors[i].text) })

\* The text-heuristic tier: `for txt in (...)`, from phrase n on; the index
\* of the anchor returned, 0 when the loop ends without one.
RECURSIVE NextByText(_, _)
NextByText(anchors, n) ==
    IF n > Len(NextPhrases) THEN 0
    ELSE IF HasHref(anchors, FindByText(anchors, NextPhrases[n]))
         THEN FindByText(anchors, NextPhrases[n])
         ELSE NextByText(anchors, n + 1)

\* Whether find_next_url raises: select_one on a malformed next_selector.
NextRaises(selectors) ==
    Truthy(selectors.next_selector) /\ ~SelectorValid(selectors.next_selector)

\* find_next_url with the rel=next tier tried before next_selector.
find_next_url_RelFirst(page, selectors) ==
    LET anchors == page.anchors
        base    == selectors.base
        bySel   == NextBySelector(anchors)
        byRel   == NextByRel(anchors)
        byText  == NextByText(anchors, 1)
    IN  IF HasHref(anchors, byRel)
        THEN urljoin(base, anchors[byRel].href)
        ELSE IF Truthy(selectors.next_selector) /\ HasHref(anchors, bySel)
        THEN urljoin(base, anchors[bySel].href)
        ELSE IF byText # 0
        THEN urljoin(base, anchors[byText].href)
        ELSE None

\* find_next_url(soup, selectors), when it does not raise: the next URL or
\* None.
find_next_url(page, selectors) ==
    LET anchors == page.anchors
        base    == selectors.base
        bySel   == NextBySelector(anchors)
        byRel   == NextByRel(anchors)
        byText  == NextByText(anchors, 1)
    IN  IF Truthy(selectors.next_selector) /\ HasHref(anchors, bySel)
        THEN urljoin(base, anchors[bySel].href)
        ELSE IF HasHref(anchors, byRel)
        THEN urljoin(base, anchors[byRel].href)
        ELSE IF byText # 0
        THEN urljoin(base, anchors[byText].href)
        ELSE None

\* ------------------------------------------------------------ fetching

\* An html value (Optional[str]): None, or a text that is empty or parses to
\* a dom.
EmptyDom == [cards |-> <<>>, anchors |-> <<>>]

HtmlNone == [isNone |-> TRUE, empty |-> TRUE, dom |-> EmptyDom]

HtmlText(empty, dom) == [isNone |-> FALSE, empty |-> empty, dom |-> dom]

\* `if not html`: None and the empty text are falsy.
HtmlTruthy(html) == ~html.isNone /\ ~html.empty

\* fetch_url(url), resp being what requests.get does: it raises (exc), or
\* answers with a status code and a text.
fetch_url(resp) ==
    IF resp.exc THEN HtmlNone
    ELSE IF resp.status = 200 THEN resp.text
    ELSE HtmlNone

\* ------------------------------------------------------------ crawling

\* build_pages(cfg): the (start url, default_location) pairs of a site, from
\* its "pages" list (dicts or plain strings), its "urls" list or its "url".
RECURSIVE PagesOf(_, _)
PagesOf(entries, site_default) ==
    IF entries = <<>> THEN <<>>
    ELSE LET e == Head(entries)
         IN  << [url |-> e.url,
                 default_location |-> IF e.dict THEN e.default_location
                                      ELSE site_default] >>
             \o PagesOf(Tail(entries), site_default)

build_pages(cfg) ==
    IF cfg.kind = "pages" THEN PagesOf(cfg.entries, cfg.default_location)
    ELSE IF cfg.kind = "urls"
    THEN [i \in 1..Len(cfg.entries) |->
             [url |-> cfg.entries[i].url, default_location |-> cfg.default_location]]
    ELSE IF cfg.kind = "url"
    THEN << [url |-> cfg.entries[1].url, default_location |-> cfg.default_location] >>
    ELSE <<>>

\* WhileCond stopping one page early.
WhileCondPageEarly(u, seen_pages, max_pages, res, cap) ==
    Truthy(u) /\ seen_pages + 1 < max_pages /\ Len(res) < cap

\* The condition of `while url and pages_seen < max_pages and
\* len(results) < max_items`.
WhileCond(u, seen_pages, max_pages, res, cap) ==
    Truthy(u) /\ seen_pages < max_pages /\ Len(res) < cap

\* Revisit without the cycle guard.
RevisitNever(u, vis) == FALSE

\* `if url in visited: break`: the cycle guard.
Revisit(u, vis) == u \in vis

\* `if len(results) >= max_items: break` inside the append loop.
CapReached(res, cap) == Len(res) >= cap

\* AppendJobs without the break inside the batch.
RECURSIVE AppendJobsNoBreak(_, _, _)
AppendJobsNoBreak(batch, acc, cap) ==
    IF batch = <<>> THEN acc
    ELSE LET j == Head(batch)
             k == key(j)
         IN  IF k \in acc.seen
             THEN AppendJobsNoBreak(Tail(batch), acc, cap)
             ELSE CHOOSE r \in
                      { AppendJobsNoBreak(Tail(batch), a, cap) :
                          a \in { [results |-> Append(acc.results, j),
                                   seen |-> acc.seen \cup {k}] } } : TRUE

\* AppendJobs without the test against seen.
RECURSIVE AppendJobsNoSeen(_, _, _)
AppendJobsNoSeen(batch, acc, cap) ==
    IF batch = <<>> THEN acc
    ELSE LET j == Head(batch)
         IN  CHOOSE r \in
                 { IF CapReached(acc2.results, cap) THEN acc2
                   ELSE AppendJobsNoSeen(Tail(batch), acc2, cap) :
                     acc2 \in { [results |-> Append(acc.results, j),
                                 seen |-> acc.seen \cup {key(j)}] } } : TRUE

\* `for j in jobs`: the site's results and seen-set after the batch, acc
\* being [results, seen] before it.
RECURSIVE AppendJobs(_, _, _)
AppendJobs(batch, acc, cap) ==
    IF batch = <<>> THEN acc
    ELSE LET j == Head(batch)
             k == key(j)
         IN  IF k \in acc.seen
             THEN AppendJobs(Tail(batch), acc, cap)
             ELSE CHOOSE r \in
                      { IF CapReached(acc2.results, cap) THEN acc2
                        ELSE AppendJobs(Tail(batch), acc2, cap) :
                          acc2 \in { [results |-> Append(acc.results, j),
                                      seen |-> acc.seen \cup {k}] } } : TRUE

\* The locals a new call of crawl_site starts with.
FreshSeen == {}

\* The visited set a walk starts with.
FreshVisited == {}

\* Deduplicate: `for j in all_jobs: dedup[j.key()] = j`, then
\* list(dedup.values()). A dict keeps its keys in first-insertion order and
\* an assignment to a key it holds replaces the value in place.
\* DictPut keeping the value a key already has.
RECURSIVE DictPutFirst(_, _, _)
DictPutFirst(items, k, v) ==
    IF items = <<>> THEN << [k |-> k, v |-> v] >>
    ELSE IF Head(items).k = k THEN items
    ELSE << Head(items) >> \o DictPutFirst(Tail(items), k, v)

RECURSIVE DictPut(_, _, _)
DictPut(items, k, v) ==
    IF items = <<>> THEN << [k |-> k, v |-> v] >>
    ELSE IF Head(items).k = k THEN << [k |-> k, v |-> v] >> \o Tail(items)
    ELSE << Head(items) >> \o DictPut(Tail(items), k, v)

RECURSIVE DedupDict(_, _)
DedupDict(js, items) ==
    IF js = <<>> THEN items
    ELSE CHOOSE r \in
             { DedupDict(Tail(js), d) :
                 d \in { DictPut(items, key(Head(js)), Head(js)) } } : TRUE

Deduplicate(js) ==
    LET items == DedupDict(js, <<>>)
    IN  [i \in 1..Len(items) |-> items[i].v]

\* ------------------------------------------------------------ the inputs

\* The largest max_pages and the largest small --max-per-site a site is run
\* with.
MaxPagesMax == 2
MaxItemsMax == 2

\* `ap.add_argument("--max-per-site", type=int, default=120)`
DefaultMaxPerSite == 120

\* Selector values: absent (None), well-formed, malformed.
SelCard  == <<".","c">>
SelTitle == <<".","t">>
SelLink  == <<"a">>
SelNext  == <<".","n">>
SelBad   == <<"[">>

\* A site's selectors; the keys a site does not set read as None, and base
\* as "" (selectors.get("base", "")).
BaseRule ==
    [container |-> SelCard, title |-> SelTitle, company |-> None,
     location |-> None, link |-> SelLink, posted |-> None, salary |-> None,
     snippet |-> None, base |-> <<>>, link_pattern |-> None,
     next_selector |-> None]

UrlP == <<"/","p">>
UrlQ == <<"/","q">>
UrlR == <<"/","r">>

Card(title, link) ==
    [title |-> title, company |-> NoEl, location |-> NoEl, link |-> link,
     posted |-> NoEl, salary |-> NoEl, snippet |-> NoEl]

Anchor(href, text, rel, sel) ==
    [href |-> href, text |-> text, rel |-> rel, sel |-> sel]

TextNext == <<"N","E","X","T">>

\* The pages a fetch may answer with.
Web ==
    { [cards |-> << Card(<<"T">>, <<"a">>), Card(<<"U">>, <<"A">>) >>,
       anchors |-> << Anchor(UrlQ, <<"2">>, TRUE, FALSE) >>],
      [cards |-> << Card(<<"T">>, <<"b">>), Card(<<"U">>, <<"a"," ">>) >>,
       anchors |-> << Anchor(UrlP, TextNext, FALSE, FALSE) >>],
      [cards |-> << Card(<<"T">>, <<"a">>) >>,
       anchors |-> << Anchor(<<"a">>, <<"X">>, FALSE, FALSE),
                      Anchor(<<"b">>, <<" ">>, FALSE, FALSE),
                      Anchor(UrlQ, <<"2">>, FALSE, TRUE) >>],
      [cards |-> << Card(<<"T">>, <<"c">>), Card(<<"U">>, <<"e">>) >>,
       anchors |-> << Anchor(UrlR, <<"3">>, TRUE, FALSE) >>],
      EmptyDom }

\* What requests.get may do.
Responses ==
    { [exc |-> TRUE, status |-> 0, text |-> HtmlNone],
      [exc |-> FALSE, status |-> 404, text |-> HtmlText(FALSE, EmptyDom)],
      [exc |-> FALSE, status |-> 200, text |-> HtmlText(TRUE, EmptyDom)] }
    \cup { [exc |-> FALSE, status |-> 200, text |-> HtmlText(FALSE, d)] : d \in Web }

\* The rules a single site is crawled under.
CrawlRules ==
    { BaseRule,
      [BaseRule EXCEPT !.link_pattern = <<"a">>, !.base = <<"/","j","/">>,
                       !.next_selector = SelNext],
      [BaseRule EXCEPT !.container = None, !.link_pattern = <<"a">>],
      [BaseRule EXCEPT !.link_pattern = <<"(">>],
      [BaseRule EXCEPT !.next_selector = SelBad],
      [BaseRule EXCEPT !.title = SelBad, !.link_pattern = <<"b">>] }

Entry(u) == [dict |-> FALSE, url |-> u, default_location |-> None]

SiteCfg(name, kind, entries, max_pages, selectors) ==
    [name |-> name, kind |-> kind, entries |-> entries,
     default_location |-> <<"H">>, max_pages |-> max_pages,
     selectors |-> selectors]

StartLists ==
    { [kind |-> "url", entries |-> << Entry(UrlP) >>],
      [kind |-> "urls", entries |-> << Entry(UrlQ) >>],
      [kind |-> "pages",
       entries |-> << Entry(UrlP),
                      [dict |-> TRUE, url |-> UrlP, default_location |-> <<"E">>] >>],
      [kind |-> "none", entries |-> <<>>] }

\* sites.yaml: one site with any rule, or several sites of one start URL each.
OneSite ==
    { << SiteCfg(<<"a">>, l.kind, l.entries, k, r) >> :
        l \in StartLists, k \in (-1)..MaxPagesMax, r \in CrawlRules }

SeveralRules ==
    { BaseRule, [BaseRule EXCEPT !.next_selector = SelBad],
      [BaseRule EXCEPT !.link_pattern = <<"(">>] }

SiteNames == << <<"x">>, <<"a">>, <<"m">> >>

SeveralSites ==
    { [i \in 1..Len(rs) |->
          SiteCfg(SiteNames[i], "url", << Entry(UrlP) >>, 1, rs[i])] :
        rs \in [1..2 -> SeveralRules] \cup [1..3 -> SeveralRules] }

SitesCfgs == OneSite \cup SeveralSites

\* ------------------------------------------------------------ the state

VARIABLES
    sites_cfg,     \* main: the loaded sites, in the order of sites.yaml
    max_per_site,  \* main: args.max_per_site
    site,          \* main: the index of the site `for name, cfg` is at
    all_jobs,      \* main: the merged list
    jobs,          \* main: the list after deduplication
    pc,            \* where control is: "main", "walk", "loop", "extract",
                   \* "next" (inside crawl_site), "done"
    results,       \* crawl_site: the site's Postings
    seen,          \* crawl_site: the keys of results
    w,             \* crawl_site: the index of the start URL the for loop is at
    url,           \* crawl_site: the URL to fetch next
    pages_seen,    \* crawl_site: pages extracted in this walk
    visited,       \* crawl_site: URLs this walk has been at
    html,          \* crawl_site: the page fetched last
    slept,         \* crawl_site: time.sleep(delay) ran since the walk's last
                   \* fetch
    log,           \* history: for each walk the current crawl_site call
                   \* has started, its fetches in order
    outcome,       \* history: one record per site that main has finished
    arg,           \* the argument of a function called on its own
    ret            \* what that call returned

vars == << sites_cfg, max_per_site, site, all_jobs, jobs, pc, results, seen, w,
           url, pages_seen, visited, html, slept, log, outcome, arg, ret >>

mainVars == << sites_cfg, max_per_site, arg, ret >>

\* The locals of main and crawl_site before main's loop starts.
Idle ==
    /\ site = 1
    /\ all_jobs = <<>>
    /\ jobs = <<>>
    /\ results = <<>>
    /\ seen = {}
    /\ w = 1
    /\ url = None
    /\ pages_seen = 0
    /\ visited = {}
    /\ html = HtmlNone
    /\ slept = FALSE
    /\ log = <<>>
    /\ outcome = <<>>

Init ==
    /\ sites_cfg \in SitesCfgs
    /\ max_per_site \in (-1)..MaxItemsMax \cup { DefaultMaxPerSite }
    /\ pc = "main"
    /\ arg = None
    /\ ret = None
    /\ Idle

\* The site main is at, and what crawl_site reads from it.
Cfg == sites_cfg[site]
Pages == build_pages(Cfg)
MaxPages == Cfg.max_pages

\* main, `for name, cfg in sites_cfg.items()`: the call crawl_site(name, cfg,
\* args.max_per_site) begins.
CrawlSite ==
    /\ pc = "main" /\ site <= Len(sites_cfg)
    /\ results' = <<>>
    /\ seen' = FreshSeen
    /\ w' = 1
    /\ pc' = "walk"
    /\ log' = <<>>
    /\ UNCHANGED << mainVars, slept, site, all_jobs, jobs, url, pages_seen, visited,
                    html, outcome >>

\* crawl_site, `for start_url, default_loc in build_pages(cfg)`: a walk begins.
WalkStart ==
    /\ pc = "walk" /\ w <= Len(Pages)
    /\ url' = Pages[w].url
    /\ pages_seen' = 0
    /\ visited' = FreshVisited
    /\ log' = Append(log, <<>>)
    /\ pc' = "loop"
    /\ slept' = FALSE
    /\ UNCHANGED << mainVars, site, all_jobs, jobs, results, seen, w, html,
                    outcome >>

\* crawl_site: the while condition is false, or the URL is in visited: the
\* walk ends.
WalkEnd ==
    /\ pc = "loop"
    /\ \/ ~WhileCond(url, pages_seen, MaxPages, results, max_per_site)
       \/ Revisit(url, visited)
    /\ w' = w + 1
    /\ pc' = "walk"
    /\ UNCHANGED << mainVars, slept, site, all_jobs, jobs, results, seen, url,
                    pages_seen, visited, html, log, outcome >>

\* Fetch with `return results` in place of the break on a failed fetch.
FetchAbortsSite ==
    /\ pc = "loop"
    /\ WhileCond(url, pages_seen, MaxPages, results, max_per_site)
    /\ ~Revisit(url, visited)
    /\ \E resp \in Responses :
         /\ html' = fetch_url(resp)
         /\ log' = [log EXCEPT ![Len(log)] = Append(@, [url |-> url, resp |-> resp])]
         /\ IF HtmlTruthy(html')
            THEN pc' = "extract" /\ w' = w
            ELSE pc' = "walk" /\ w' = Len(Pages) + 1
    /\ visited' = visited \cup {url}
    /\ slept' = FALSE
    /\ UNCHANGED << mainVars, site, all_jobs, jobs, results, seen, url,
                    pages_seen, outcome >>

\* crawl_site: visited.add(url); html = fetch_url(url); if not html: break.
Fetch ==
    /\ pc = "loop"
    /\ WhileCond(url, pages_seen, MaxPages, results, max_per_site)
    /\ ~Revisit(url, visited)
    /\ \E resp \in Responses :
         /\ html' = fetch_url(resp)
         /\ log' = [log EXCEPT ![Len(log)] = Append(@, [url |-> url, resp |-> resp])]
         /\ IF HtmlTruthy(html')
            THEN pc' = "extract" /\ w' = w
            ELSE pc' = "walk" /\ w' = w + 1
    /\ visited' = visited \cup {url}
    /\ slept' = FALSE
    /\ UNCHANGED << mainVars, site, all_jobs, jobs, results, seen, url,
                    pages_seen, outcome >>

\* Raised with the Postings collected before the fault merged.
RaisedLeaks ==
    /\ pc' = "main"
    /\ site' = site + 1
    /\ all_jobs' = all_jobs \o results
    /\ outcome' = Append(outcome, [raised |-> TRUE, results |-> results])
    /\ UNCHANGED << mainVars, slept, jobs, results, seen, w, url,
                    pages_seen, visited, html, log >>

\* main, `except Exception: continue`: the call raised; the next site.
Raised ==
    /\ pc' = "main"
    /\ site' = site + 1
    /\ outcome' = Append(outcome, [raised |-> TRUE, results |-> results])
    /\ UNCHANGED << mainVars, slept, all_jobs, jobs, results, seen, w, url,
                    pages_seen, visited, html, log >>

\* What extract_jobs_from_html does with the page fetched last.
Extracted ==
    extract_jobs_from_html(html.dom, Cfg, Cfg.name, Pages[w].default_location)

\* crawl_site: the page is extracted and its new Postings are appended;
\* pages_seen += 1; break when the cap is reached.
Extract ==
    /\ pc = "extract"
    /\ \E r \in { Extracted } :
         /\ ~r.raised
         /\ \E acc \in { AppendJobs(r.jobs, [results |-> results, seen |-> seen],
                                     max_per_site) } :
              /\ results' = acc.results
              /\ seen' = acc.seen
              /\ IF CapReached(acc.results, max_per_site)
                 THEN pc' = "walk" /\ w' = w + 1
                 ELSE pc' = "next" /\ w' = w
    /\ pages_seen' = pages_seen + 1
    /\ UNCHANGED << mainVars, slept, site, all_jobs, jobs, url, visited, html,
                    log, outcome >>

\* crawl_site: extract_jobs_from_html raises, and so does crawl_site.
ExtractRaise ==
    /\ pc = "extract"
    /\ Extracted.raised
    /\ Raised

\* crawl_site: url = find_next_url(soup, selectors); if url: time.sleep(delay):
\* the pause is taken whenever the next URL is truthy.
ResolveNext ==
    /\ pc = "next"
    /\ ~NextRaises(Cfg.selectors)
    /\ url' = find_next_url(html.dom, Cfg.selectors)
    /\ pc' = "loop"
    /\ slept' = Truthy(url')
    /\ UNCHANGED << mainVars, site, all_jobs, jobs, results, seen, w,
                    pages_seen, visited, html, log, outcome >>

\* crawl_site: find_next_url raises, and so does crawl_site.
ResolveRaise ==
    /\ pc = "next"
    /\ NextRaises(Cfg.selectors)
    /\ Raised

\* crawl_site returns results; main: all_jobs.extend(jobs); the next site.
Return ==
    /\ pc = "walk" /\ w > Len(Pages)
    /\ all_jobs' = all_jobs \o results
    /\ site' = site + 1
    /\ outcome' = Append(outcome, [raised |-> FALSE, results |-> results])
    /\ pc' = "main"
    /\ UNCHANGED << mainVars, slept, jobs, results, seen, w, url, pages_seen,
                    visited, html, log >>

\* main: every site is done; the merged list is deduplicated.
Dedup ==
    /\ pc = "main" /\ site > Len(sites_cfg)
    /\ jobs' = Deduplicate(all_jobs)
    /\ pc' = "done"
    /\ UNCHANGED << mainVars, slept, site, all_jobs, results, seen, w, url,
                    pages_seen, visited, html, log, outcome >>

Next ==
    \/ CrawlSite
    \/ WalkStart
    \/ WalkEnd
    \/ Fetch
    \/ Extract
    \/ ExtractRaise
    \/ ResolveNext
    \/ ResolveRaise
    \/ Return
    \/ Dedup

Spec == Init /\ [][Next]_vars

\* The loop of main and the loops of crawl_site run on: no step that can be
\* taken is put off for ever.
FairSpec == Spec /\ WF_vars(Next)

\* ------------------------------------------------------------ functions on their own

\* All sequences over S of length at most n.
SeqsUpTo(S, n) == UNION { [1..k -> S] : k \in 0..n }

\* The crawl's variables while one function is called on its own.
NoCrawl ==
    /\ sites_cfg = <<>>
    /\ max_per_site = 0
    /\ Idle

crawlVars == << sites_cfg, max_per_site, site, all_jobs, jobs, results, seen,
                w, url, pages_seen, visited, html, slept, log, outcome >>

\* --- find_next_url

MaxAnchors == 2

NextHrefs == { None, UrlP, UrlQ }
NextTexts == { <<"X">>, TextNext, <<"s","e","u","r","a","a","v","a"," ","2">> }

\* An anchor is one next_selector matches, one with rel=next, or neither.
NextAnchors ==
    { Anchor(h, t, k = "rel", k = "sel") :
        h \in NextHrefs, t \in NextTexts, k \in { "rel", "sel", "a" } }

NextRules ==
    { BaseRule,
      [BaseRule EXCEPT !.next_selector = SelNext],
      [BaseRule EXCEPT !.next_selector = SelNext, !.base = <<"/","j","/">>],
      [BaseRule EXCEPT !.next_selector = SelBad] }

InitNext ==
    /\ arg \in { [page |-> [cards |-> <<>>, anchors |-> as], selectors |-> r] :
                   as \in SeqsUpTo(NextAnchors, MaxAnchors), r \in NextRules }
    /\ ret = None
    /\ pc = "call"
    /\ NoCrawl

\* find_next_url(soup, selectors) is called and returns or raises.
CallNext ==
    /\ pc = "call"
    /\ ret' = IF NextRaises(arg.selectors)
              THEN [raised |-> TRUE, url |-> None]
              ELSE [raised |-> FALSE, url |-> find_next_url(arg.page, arg.selectors)]
    /\ pc' = "returned"
    /\ UNCHANGED << crawlVars, arg >>

SpecNext == InitNext /\ [][CallNext]_vars

\* --- extract_jobs_from_html

MaxCards == 2
MaxLinks == 2

ExtractCards ==
    { Card(<<"T"," "," ","U">>, <<"a">>),
      Card(<<" ">>, <<"a">>), Card(NoEl, <<"a">>), Card(<<"T">>, None),
      Card(<<"T">>, <<>>), Card(<<"T">>, NoEl), Card(<<"T">>, <<" ">>) }

ExtractAnchors ==
    { Anchor(<<>>, <<"X">>, FALSE, FALSE),
      Anchor(<<"a">>, <<"X">>, FALSE, FALSE),
      Anchor(<<"a"," ">>, <<" ">>, FALSE, FALSE),
      Anchor(<<"A">>, <<>>, FALSE, FALSE) }

ExtractRules ==
    { BaseRule,
      [BaseRule EXCEPT !.base = <<"/","j","/">>, !.link_pattern = <<"a">>],
      [BaseRule EXCEPT !.container = None, !.link_pattern = <<"b">>],
      [BaseRule EXCEPT !.title = None, !.link_pattern = <<"A">>],
      [BaseRule EXCEPT !.container = SelBad],
      [BaseRule EXCEPT !.link = SelBad],
      [BaseRule EXCEPT !.link_pattern = <<"(">>] }

InitExtract ==
    /\ arg \in { [page |-> [cards |-> cs, anchors |-> as],
                  rules |-> SiteCfg(<<"a">>, "url", << Entry(UrlP) >>, 1, r),
                  default_location |-> <<"H">>] :
                   cs \in SeqsUpTo(ExtractCards, MaxCards),
                   as \in SeqsUpTo(ExtractAnchors, MaxLinks),
                   r \in ExtractRules }
    /\ ret = None
    /\ pc = "call"
    /\ NoCrawl

\* extract_jobs_from_html(html, rules, source_name, default_location) is
\* called and returns or raises.
CallExtract ==
    /\ pc = "call"
    /\ ret' = extract_jobs_from_html(arg.page, arg.rules, arg.rules.name,
                                     arg.default_location)
    /\ pc' = "returned"
    /\ UNCHANGED << crawlVars, arg >>

SpecExtract == InitExtract /\ [][CallExtract]_vars

\* --- the deduplication of main

MaxJobs == 3

DedupUrls == { <<"a">>, <<"A">>, <<" ","a">>, <<"b">> }

DedupJobs ==
    { Job(s, <<"T">>, <<>>, <<>>, u, None, None, None, <<>>) :
        s \in { <<"a">>, <<"x">> }, u \in DedupUrls }

InitDedup ==
    /\ arg \in SeqsUpTo(DedupJobs, MaxJobs)
    /\ ret = None
    /\ pc = "call"
    /\ NoCrawl

\* The merged list arg is deduplicated.
CallDedup ==
    /\ pc = "call"
    /\ ret' = Deduplicate(arg)
    /\ pc' = "returned"
    /\ UNCHANGED << crawlVars, arg >>

SpecDedup == InitDedup /\ [][CallDedup]_vars

\* ------------------------------------------------------------ the crawl's properties

Max(a, b) == IF a >= b THEN a ELSE b

\* Control is inside a call of crawl_site.
InCrawl == pc \in {"walk", "loop", "extract", "next"}

\* Control is inside a walk.
InWalk == pc \in {"loop", "extract", "next"}

\* The fetches of the walk that is running or ran last.
CurLog == IF log = <<>> THEN <<>> ELSE log[Len(log)]

\* What extract_jobs_from_html returned for the page fetched last.
Batch ==
    extract_jobs_from_html(html.dom, Cfg, Cfg.name,
                           Pages[Len(log)].default_location).jobs

Keys(js) == { key(js[i]) : i \in 1..Len(js) }

Range(q) == { q[i] : i \in 1..Len(q) }

IsPrefix(p, q) == Len(p) <= Len(q) /\ SubSeq(q, 1, Len(p)) = p

\* fetch_url reports a failure: a transport error or a status other than 200.
FetchFailed(resp) == resp.exc \/ resp.status # 200

\* With max_pages = k every walk makes at most k fetches (none when k <= 0).
C1_FetchBound == \A i \in 1..Len(log) : Len(log[i]) <= Max(0, MaxPages)

\* Every call of crawl_site ends: control comes back to main.
C1_WalksEnd == [](InCrawl => C1_FetchBound) /\ (InCrawl ~> pc = "main")

\* A call of crawl_site that ends, ends at `return results`.
C1_EndsByReturn ==
    (InCrawl /\ pc' = "main") => ~outcome'[Len(outcome')].raised

\* C1: with max_pages = k every walk makes at most k fetches (none when
\* k <= 0), whatever the start URLs, the next links and the fetch outcomes,
\* and every call of crawl_site ends, at its return.
C1_WalksReturn == C1_WalksEnd /\ [][C1_EndsByReturn]_vars

\* C2: with max_per_site >= 0 the site's result list never holds more than
\* max_per_site Postings, one count over all start URLs of the site, and the
\* batch of the page that reaches the cap is cut there.
C2_ItemCap ==
    max_per_site >= 0 =>
        /\ Len(results) <= max_per_site
        /\ \A i \in 1..Len(outcome) : Len(outcome[i].results) <= max_per_site

\* The cap is reached in the second walk, by a page whose batch holds a
\* further new Posting, with a Posting of the first walk in the list.
C2_Witness ==
    /\ pc = "walk" /\ Len(log) = 2 /\ Len(log[2]) = 1 /\ HtmlTruthy(html)
    /\ max_per_site >= 2 /\ Len(results) = max_per_site
    /\ \E i \in 1..Len(Batch) : key(Batch[i]) \notin seen
    /\ results[1] \notin Range(Batch)

\* C3: a walk fetches no URL twice; visited holds exactly the URLs the walk
\* has fetched (it starts empty with every start URL); and when the next URL
\* is in visited the walk ends without a fetch.
C3_NoRefetch ==
    \A i \in 1..Len(log) : \A m, n \in 1..Len(log[i]) :
        log[i][m].url = log[i][n].url => m = n

C3_VisitedPerWalk == visited = { CurLog[n].url : n \in 1..Len(CurLog) }

C3_CycleGuard ==
    /\ [](InCrawl => C3_NoRefetch)
    /\ [](InWalk => C3_VisitedPerWalk)
    /\ [][(pc = "loop" /\ url \in visited) => (pc' = "walk" /\ log' = log)]_vars

\* The second walk is back at a URL it has fetched, and its start URL was
\* fetched by the first walk too.
C3_Witness ==
    /\ pc = "loop" /\ url \in visited
    /\ Len(log) = 2 /\ log[1] # <<>> /\ log[2] # <<>>
    /\ log[1][1].url = log[2][1].url

\* C4: a failed fetch is the last fetch of its walk (no retry, nothing
\* beyond it), leaves the site's Postings as they are, and ends only that
\* walk: the for loop goes on to the next start URL.
C4_FailureLast ==
    \A i \in 1..Len(log) : \A n \in 1..Len(log[i]) :
        FetchFailed(log[i][n].resp) => n = Len(log[i])

C4_EveryWalkRuns ==
    pc = "walk" => /\ Len(log) = w - 1
                   /\ w <= Len(Pages) => ENABLED WalkStart

C4_FailedFetchStep ==
    (log' # log /\ Len(log') = Len(log) /\ FetchFailed(CurLog'[Len(CurLog')].resp))
        => /\ results' = results
           /\ seen' = seen
           /\ all_jobs' = all_jobs
           /\ pc' = "walk"
           /\ w' = w + 1

C4_FailureEndsWalkOnly ==
    /\ [](InCrawl => (C4_FailureLast /\ C4_EveryWalkRuns))
    /\ [][C4_FailedFetchStep]_vars

\* The first walk collected Postings and then failed on its second page; the
\* second walk has fetched since.
C4_Witness ==
    /\ InCrawl /\ Len(log) = 2
    /\ Len(log[1]) = 2 /\ FetchFailed(log[1][2].resp)
    /\ results # <<>>
    /\ log[2] # <<>>

\* The lists of the sites that returned, in site order.
RECURSIVE Merged(_)
Merged(out) ==
    IF out = <<>> THEN <<>>
    ELSE (IF Head(out).raised THEN <<>> ELSE Head(out).results) \o Merged(Tail(out))

\* C5: main finishes every configured site, also after a site that raised;
\* the merged list is the lists of the sites that returned, unchanged and in
\* site order, with nothing of a site that raised.
C5_SiteFailureIsolated ==
    /\ pc \in {"main", "done"} => Len(outcome) = site - 1
    /\ all_jobs = Merged(outcome)
    /\ pc = "done" => Len(outcome) = Len(sites_cfg)

\* A site raised holding Postings, between two sites that returned some.
C5_Witness ==
    /\ pc = "done" /\ Len(outcome) = 3
    /\ ~outcome[1].raised /\ outcome[1].results # <<>>
    /\ outcome[2].raised /\ outcome[2].results # <<>>
    /\ ~outcome[3].raised /\ outcome[3].results # <<>>

\* C6: the site's result list holds no two Postings with one key; seen is
\* the keys of this call's results and of nothing else; and results only
\* grows at its end, so the Posting found first stays.
C6_NoDupKeys ==
    \A m, n \in 1..Len(results) : key(results[m]) = key(results[n]) => m = n

C6_SiteDedup ==
    /\ [](InCrawl => (C6_NoDupKeys /\ seen = Keys(results)))
    /\ [][pc # "main" => IsPrefix(results, results')]_vars

\* The second site holds a Posting whose key the first site found too, and
\* has discarded a Posting of the page with that key and another url.
C6_Witness ==
    /\ pc \in {"next", "walk"} /\ site = 2 /\ log # <<>> /\ HtmlTruthy(html)
    /\ \E j \in Range(results) : key(j) \in Keys(all_jobs)
    /\ \E b \in Range(Batch) : key(b) \in seen /\ b \notin Range(results)


\* ------------------------------------------------------------ the deduplication's properties

\* The index of the last Posting of js with key k.
LastWithKey(js, k) ==
    CHOOSE n \in 1..Len(js) :
        key(js[n]) = k /\ \A m \in (n+1)..Len(js) : key(js[m]) # k

\* C7: for every key of the merged list the deduplicated list holds exactly
\* one Posting with that key, the last one of the merged list with it, and
\* it holds no Posting the merged list does not.
C7_LastWriteWins ==
    pc = "returned" =>
        /\ \A k \in Keys(arg) :
             \E i \in 1..Len(ret) :
                /\ key(ret[i]) = k
                /\ \A m \in 1..Len(ret) : key(ret[m]) = k => m = i
                /\ ret[i] = arg[LastWithKey(arg, k)]
        /\ Range(ret) \subseteq Range(arg)

\* Two different Postings of one key, from two sites and with urls that
\* differ in case or in blanks: the later one is kept, the earlier one is not.
C7_Witness ==
    /\ pc = "returned"
    /\ \E m, n \in 1..Len(arg) :
         /\ m < n
         /\ key(arg[m]) = key(arg[n])
         /\ arg[m].url # arg[n].url /\ arg[m].source # arg[n].source
         /\ arg[n] \in Range(ret) /\ arg[m] \notin Range(ret)
    /\ Len(ret) = 2

\* ------------------------------------------------------------ the resolver's properties

\* The anchors of the page find_next_url was called with, and the rule.
NextArgAnchors == arg.page.anchors
NextArgRule == arg.selectors

\* Anchor i is the first one in document order among the anchors I.
IsFirst(i, I) == i \in I /\ \A j \in I : i <= j

\* The anchors next_selector matches, those with rel=next, and those whose
\* text holds phrase n, whatever the case of its letters.
SelAnchors == { i \in 1..Len(NextArgAnchors) : NextArgAnchors[i].sel }
RelAnchors == { i \in 1..Len(NextArgAnchors) : NextArgAnchors[i].rel }
TextAnchors(n) ==
    { i \in 1..Len(NextArgAnchors) :
        IsSubstring(Lower(NextPhrases[n]), Lower(NextArgAnchors[i].text)) }

\* Tier 1: next_selector is set and the element it matches has an href.
SelTier(i) ==
    /\ Truthy(NextArgRule.next_selector)
    /\ IsFirst(i, SelAnchors)
    /\ Truthy(NextArgAnchors[i].href)

\* Tier 2: the rel=next anchor has an href.
RelTier(i) ==
    /\ IsFirst(i, RelAnchors)
    /\ Truthy(NextArgAnchors[i].href)

\* Tier 3: the first anchor whose text holds one of the phrases, whatever the
\* case of its letters, has an href.
TextTier(i) ==
    /\ \E n \in 1..Len(NextPhrases) : IsFirst(i, TextAnchors(n))
    /\ Truthy(NextArgAnchors[i].href)

\* The URL anchor i leads to.
Target(i) == urljoin(NextArgRule.base, NextArgAnchors[i].href)

\* C8: the first tier that matches decides: next_selector's element, else
\* the rel=next anchor, else the text heuristic, whatever the anchors of the
\* later tiers point to; with no match at any tier the result is None, and
\* the while condition of the walk is false.
C8_Precedence ==
    (pc = "returned" /\ ~ret.raised) =>
        LET I == 1..Len(NextArgAnchors)
        IN  /\ \A i \in I : SelTier(i) => ret.url = Target(i)
            /\ \A i \in I :
                 (RelTier(i) /\ \A s \in I : ~SelTier(s)) => ret.url = Target(i)
            /\ ((\E t \in I : TextTier(t)) /\ \A i \in I : ~SelTier(i) /\ ~RelTier(i))
                 => \E t \in I : TextTier(t) /\ ret.url = Target(t)
            /\ (\A i \in I : ~SelTier(i) /\ ~RelTier(i) /\ ~TextTier(i))
                 => /\ ret.url = None
                    /\ ~WhileCond(ret.url, 0, 1, <<>>, 1)

\* next_selector's element comes after an anchor that is rel=next, holds a
\* phrase and points elsewhere: the result is the target of next_selector's.
C8_Witness ==
    /\ pc = "returned" /\ ~ret.raised
    /\ Len(NextArgAnchors) = 2
    /\ SelTier(2) /\ RelTier(1) /\ TextTier(1)
    /\ Target(1) # Target(2)
    /\ ret.url = Target(2)
    /\ NextArgRule.base # <<>>

\* ------------------------------------------------------------ the extractor's properties

ExtractArgRule == arg.rules.selectors

\* The Postings of the list returned that the structured pass made (it sets
\* posted to a text), and those the fallback made (it sets posted to None).
StructuredJobs == SelectSeq(ret.jobs, LAMBDA j : j.posted # None)
FallbackPostings == SelectSeq(ret.jobs, LAMBDA j : j.posted = None)

\* A card's title is there and not blank, and its link target is there and
\* not empty.
Complete(card) ==
    /\ Truthy(ExtractArgRule.title) /\ card.title # NoEl
    /\ \E n \in 1..Len(card.title) : ~IsSpace(card.title[n])
    /\ Truthy(ExtractArgRule.link) /\ card.link \notin {NoEl, None, <<>>}

Placeholder == <<"J","o","b"," ","p","o","s","t","i","n","g">>

\* C9: no Posting of the list returned has an empty title or an empty url;
\* the cards whose title or link target is missing or empty contribute
\* nothing (the structured pass makes one Posting per complete card); and a
\* fallback Posting has the text of its anchor for title, "Job posting" when
\* that text is empty. crawl_site takes the Postings of a site's results from
\* these lists only.
C9_NoEmptyTitleOrUrl ==
    (pc = "returned" /\ ~ret.raised) =>
        /\ \A j \in Range(ret.jobs) :
             /\ j.title \notin {None, <<>>}
             /\ j.url \notin {None, <<>>}
        /\ Len(StructuredJobs) =
             IF Truthy(ExtractArgRule.container)
             THEN Cardinality({ i \in 1..Len(arg.page.cards) :
                                  Complete(arg.page.cards[i]) })
             ELSE 0
        /\ \A j \in Range(FallbackPostings) :
             \E a \in Range(arg.page.anchors) :
                /\ Truthy(a.href)
                /\ j.url = urljoin(ExtractArgRule.base, a.href)
                /\ j.title = IF \E n \in 1..Len(a.text) : ~IsSpace(a.text[n])
                             THEN normalize_space(a.text)
                             ELSE Placeholder

\* A card without a link target came with a complete card, and the fallback
\* made a Posting of an anchor with a blank text.
C9_Witness ==
    /\ pc = "returned" /\ ~ret.raised
    /\ Len(arg.page.cards) = 2
    /\ Len(StructuredJobs) = 1
    /\ \E i \in 1..2 : arg.page.cards[i].title = <<"T">> /\ arg.page.cards[i].link = None
    /\ \E j \in Range(FallbackPostings) : j.title = Placeholder

\* C10: every call of extract_jobs_from_html returns a list of Postings,
\* whatever the rule: no exception escapes, also when a selector or
\* link_pattern of the rule is absent or malformed.
C10_NoFault == pc = "returned" => ~ret.raised

\* ------------------------------------------------------------ filter_jobs

\* `" ".join([j.title.lower(), j.company.lower(), j.location.lower(),
\* (j.snippet or "").lower()])`
JoinText(j) ==
    Lower(j.title) \o <<" ">> \o Lower(j.company) \o <<" ">> \o Lower(j.location)
        \o <<" ">> \o Lower(IF Truthy(j.snippet) THEN j.snippet ELSE <<>>)

\* `any(k.lower() in text for k in terms)`
AnyIn(terms, text) == \E i \in 1..Len(terms) : IsSubstring(Lower(terms[i]), text)

\* JobOk with `kw_ok or loc_ok`.
JobOkEither(j, keywords, locations) ==
    \/ keywords = <<>> \/ AnyIn(keywords, JoinText(j))
    \/ locations = <<>> \/ AnyIn(locations, JoinText(j))

\* ok(j): kw_ok and loc_ok.
JobOk(j, keywords, locations) ==
    /\ keywords = <<>> \/ AnyIn(keywords, JoinText(j))
    /\ locations = <<>> \/ AnyIn(locations, JoinText(j))

\* `[j for j in jobs if ok(j)]`
RECURSIVE KeepOk(_, _, _)
KeepOk(js, keywords, locations) ==
    IF js = <<>> THEN <<>>
    ELSE (IF JobOk(Head(js), keywords, locations) THEN << Head(js) >> ELSE <<>>)
         \o KeepOk(Tail(js), keywords, locations)

\* filter_jobs(jobs, keywords, locations)
filter_jobs(js, keywords, locations) ==
    IF keywords = <<>> /\ locations = <<>> THEN js
    ELSE KeepOk(js, keywords, locations)

\* The longest list of Postings and the longest list of terms filter_jobs is
\* called with.
MaxFilterJobs == 2
MaxTerms == 2

FilterJobs ==
    { Job(<<"a">>, t, c, <<"E">>, <<"u">>, <<>>, None, <<>>,
          IF c = <<>> THEN None ELSE <<"n","a">>) :
        t \in { <<"A","b">>, <<"x">> }, c \in { <<>>, <<"B">> } }
    \cup { Job(<<"a">>, <<"a">>, <<"b">>, <<>>, <<"u">>, None, None, None, <<>>) }

FilterKeywords == { <<"a"," ","b">>, <<"N">> }
FilterLocations == { <<"e">>, <<"L">> }

InitFilter ==
    /\ arg \in { [jobs |-> js, keywords |-> ks, locations |-> ls] :
                   js \in SeqsUpTo(FilterJobs, MaxFilterJobs),
                   ks \in SeqsUpTo(FilterKeywords, MaxTerms),
                   ls \in SeqsUpTo(FilterLocations, MaxTerms) }
    /\ ret = None
    /\ pc = "call"
    /\ NoCrawl

\* filter_jobs(jobs, keywords, locations) is called and returns.
CallFilter ==
    /\ pc = "call"
    /\ ret' = filter_jobs(arg.jobs, arg.keywords, arg.locations)
    /\ pc' = "returned"
    /\ UNCHANGED << crawlVars, arg >>

SpecFilter == InitFilter /\ [][CallFilter]_vars

\* ------------------------------------------------------------ the filter's properties

\* Term t occurs in the lower-cased title, company, location and snippet of
\* j, put one after the other with a blank between them, whatever the case
\* of the letters of t.
OccursIn(t, j) ==
    LET text == Lower(j.title \o <<" ">> \o j.company \o <<" ">> \o j.location
                      \o <<" ">> \o (IF j.snippet = None THEN <<>> ELSE j.snippet))
    IN  \E a \in 0..(Len(text) - Len(t)) : SubSeq(text, a + 1, a + Len(t)) = Lower(t)

\* The indices of the Postings of the input the filter is to retain.
Retained ==
    { i \in 1..Len(arg.jobs) :
        /\ arg.keywords = <<>> \/ \E k \in Range(arg.keywords) : OccursIn(k, arg.jobs[i])
        /\ arg.locations = <<>> \/ \E l \in Range(arg.locations) : OccursIn(l, arg.jobs[i]) }

\* C11: filter_jobs retains a Posting iff (keywords is empty or some keyword
\* occurs in its text) and (locations is empty or some location occurs in
\* that same text), the retained Postings in their input order; with both
\* lists empty the input is returned as it is.
C11_FilterRetains ==
    pc = "returned" =>
        /\ Len(ret) = Cardinality(Retained)
        /\ \A n \in 1..Len(ret) :
             \E i \in Retained :
                /\ Cardinality({ m \in Retained : m <= i }) = n
                /\ ret[n] = arg.jobs[i]
        /\ (arg.keywords = <<>> /\ arg.locations = <<>>) => ret = arg.jobs

\* Of two Postings the first matches a keyword only and is dropped, the
\* second matches a keyword in one field and a location in another and is
\* retained.
C11_Witness ==
    /\ pc = "returned"
    /\ arg.keywords # <<>> /\ arg.locations # <<>>
    /\ Len(arg.jobs) = 2 /\ Retained = {2}
    /\ \E k \in Range(arg.keywords) : OccursIn(k, arg.jobs[1])
    /\ ret = << arg.jobs[2] >>

\* ------------------------------------------------------------ the date filter of main

\* A date is the number of its day, 2024-04-01 being day 1; the calendar of
\* the model runs from 2024-03-01 (day -30) to 2024-06-30 (day 91).
CalendarDays == (-30)..91

Digits == <<"0","1","2","3","4","5","6","7","8","9">>

\* A number below 100 in two digits.
TwoDigits(n) == << Digits[(n \div 10) + 1], Digits[(n % 10) + 1] >>

\* date.isoformat(): YYYY-MM-DD
isoformat(d) ==
    LET md == IF d <= 0 THEN << 3, d + 31 >>
              ELSE IF d <= 30 THEN << 4, d >>
              ELSE IF d <= 61 THEN << 5, d - 30 >>
              ELSE << 6, d - 61 >>
    IN  <<"2","0","2","4","-">> \o TwoDigits(md[1]) \o <<"-">> \o TwoDigits(md[2])

\* The characters of the strings that are compared, in the order of their
\* code points: "-", the digits, the capitals, the small letters.
CharOrder == <<"-">> \o Digits \o UpperChars \o LowerChars

CharRank(c) == CHOOSE n \in 1..Len(CharOrder) : CharOrder[n] = c

\* a < b for two strings (Python compares them character by character).
RECURSIVE StrLess(_, _)
StrLess(a, b) ==
    IF b = <<>> THEN FALSE
    ELSE IF a = <<>> THEN TRUE
    ELSE IF Head(a) # Head(b) THEN CharRank(Head(a)) < CharRank(Head(b))
    ELSE StrLess(Tail(a), Tail(b))

\* NotBefore with `>` for `>=`.
NotBeforeStrict(posted_dt, cutoff) == StrLess(cutoff, posted_dt)

\* `j.posted_dt >= cutoff`
NotBefore(posted_dt, cutoff) == ~StrLess(posted_dt, cutoff)

\* `[j for j in jobs if not j.posted_dt or j.posted_dt >= cutoff]`
RECURSIVE KeepRecent(_, _)
KeepRecent(js, cutoff) ==
    IF js = <<>> THEN <<>>
    ELSE (IF ~Truthy(Head(js).posted_dt) \/ NotBefore(Head(js).posted_dt, cutoff)
          THEN << Head(js) >> ELSE <<>>)
         \o KeepRecent(Tail(js), cutoff)

\* main, `# Date filter`: days is args.days, today is dt.date.today().
DateFilter(js, days, today) ==
    IF days # 0 /\ \E i \in 1..Len(js) : Truthy(js[i].posted_dt)
    THEN KeepRecent(js, isoformat(today - days))
    ELSE js

\* The longest list the date filter is called with.
MaxDatedJobs == 3

\* A Posting whose posted text is the date of day d, and one whose posted
\* text is empty.
Dated(source, u, d) ==
    Job(source, <<"T">>, <<>>, <<>>, u, isoformat(d), parse_date(isoformat(d)),
        <<>>, <<>>)

Undated(source, u) ==
    Job(source, <<"T">>, <<>>, <<>>, u, <<>>, None, <<>>, <<>>)

RecencyJobs ==
    { Dated(<<"a">>, <<"u">>, d) : d \in { 1, 30, 32, 45, 61 } }
    \cup { Undated(<<"a">>, <<"u">>) }

RecencyDays == { -1, 0, 1, 30 }
RecencyTodays == { 31, 62 }

InitRecency ==
    /\ arg \in { [jobs |-> js, days |-> n, today |-> t] :
                   js \in SeqsUpTo(RecencyJobs, MaxDatedJobs),
                   n \in RecencyDays, t \in RecencyTodays }
    /\ ret = None
    /\ pc = "call"
    /\ NoCrawl

\* The date filter of main runs on the deduplicated list.
CallRecency ==
    /\ pc = "call"
    /\ ret' = DateFilter(arg.jobs, arg.days, arg.today)
    /\ pc' = "returned"
    /\ UNCHANGED << crawlVars, arg >>

SpecRecency == InitRecency /\ [][CallRecency]_vars

\* ------------------------------------------------------------ the date filter's properties

\* The day a date string names.
DayOf(iso) == CHOOSE d \in CalendarDays : isoformat(d) = iso

\* The indices of the Postings of the input that are not older than the
\* cutoff, today - N days: those without a date, and those dated on the day
\* of the cutoff or later.
Recent ==
    { i \in 1..Len(arg.jobs) :
        \/ arg.jobs[i].posted_dt = None
        \/ DayOf(arg.jobs[i].posted_dt) >= arg.today - arg.days }

\* The output is the Postings of the input with an index in I, in input order.
IsSelection(out, inp, I) ==
    /\ Len(out) = Cardinality(I)
    /\ \A n \in 1..Len(out) :
         \E i \in I : Cardinality({ m \in I : m <= i }) = n /\ out[n] = inp[i]

SortKey(j) ==
    << IF Truthy(j.posted_dt) THEN j.posted_dt
       ELSE <<"0","0","0","0","-","0","0","-","0","0">>,
       j.source >>

\* a < b for two keys (Python compares tuples item by item).
KeyLess(a, b) == StrLess(a[1], b[1]) \/ (a[1] = b[1] /\ StrLess(a[2], b[2]))

\* ComesFirst without `reverse=True`.
ComesFirstAscending(a, b) == ~KeyLess(SortKey(b), SortKey(a))

\* Whether a, which came before b in the list, stays before b: with
\* reverse=True the larger key goes first, and list.sort keeps two Postings
\* of equal keys in the order they had.
ComesFirst(a, b) == ~KeyLess(SortKey(a), SortKey(b))

\* InsertSorted with a Posting put before those of an equal key.
RECURSIVE InsertSortedBeforeEqual(_, _)
InsertSortedBeforeEqual(sorted, j) ==
    IF sorted = <<>> THEN << j >>
    ELSE IF KeyLess(SortKey(j), SortKey(Head(sorted)))
    THEN << Head(sorted) >> \o InsertSortedBeforeEqual(Tail(sorted), j)
    ELSE << j >> \o sorted

\* The sorted list with j, which came after all of sorted in the input, put
\* in its place.
RECURSIVE InsertSorted(_, _)
InsertSorted(sorted, j) ==
    IF sorted = <<>> THEN << j >>
    ELSE IF ComesFirst(Head(sorted), j)
    THEN << Head(sorted) >> \o InsertSorted(Tail(sorted), j)
    ELSE << j >> \o sorted

\* `jobs.sort(key=..., reverse=True)`, sorted being the sorted list of the
\* Postings before js.
RECURSIVE SortInto(_, _)
SortInto(sorted, js) ==
    IF js = <<>> THEN sorted
    ELSE CHOOSE r \in
             { SortInto(t, Tail(js)) : t \in { InsertSorted(sorted, Head(js)) } } : TRUE

\* main, `# Sort`
SortJobs(js) == SortInto(<<>>, js)

\* The longest list the sort is called with.
MaxSortJobs == 3

SortInputs ==
    { Dated(s, u, 31) : s \in { <<"a">>, <<"x">> }, u \in { <<"u">>, <<"v">> } }
    \cup { Dated(<<"a">>, <<"u">>, 30), Undated(<<"x">>, <<"u">>),
           Undated(<<"a">>, <<"v">>) }

InitSort ==
    /\ arg \in SeqsUpTo(SortInputs, MaxSortJobs)
    /\ ret = None
    /\ pc = "call"
    /\ NoCrawl

\* The sort of main runs on the filtered list.
CallSort ==
    /\ pc = "call"
    /\ ret' = SortJobs(arg)
    /\ pc' = "returned"
    /\ UNCHANGED << crawlVars, arg >>

SpecSort == InitSort /\ [][CallSort]_vars

\* ------------------------------------------------------------ the sort's properties

\* The day of a Posting's date, a day before the calendar for a Posting
\* without one (the sentinel minimum date).
SortDay(j) == IF j.posted_dt = None THEN -1000 ELSE DayOf(j.posted_dt)

\* The pair of a is above, or equal to, the pair of b.
PairAbove(a, b) ==
    \/ SortDay(a) > SortDay(b)
    \/ SortDay(a) = SortDay(b) /\ StrLess(b.source, a.source)

PairEqual(a, b) == SortDay(a) = SortDay(b) /\ a.source = b.source

\* The one-to-one maps of the positions of a list of n elements.
Perms(n) == { p \in [1..n -> 1..n] : \A a, b \in 1..n : p[a] = p[b] => a = b }

\* C13: the sorted list is a permutation of the input, descending by the
\* pair (date or the sentinel minimum date, source); the Postings without a
\* date come after all those with one; Postings of equal pairs keep the
\* order they had in the input.
C13_StableDescending ==
    pc = "returned" =>
        /\ \E p \in Perms(Len(arg)) :
             /\ Len(ret) = Len(arg)
             /\ \A n \in 1..Len(ret) : ret[n] = arg[p[n]]
             /\ \A m, n \in 1..Len(ret) :
                  (m < n /\ PairEqual(ret[m], ret[n])) => p[m] < p[n]
        /\ \A m, n \in 1..Len(ret) :
             m < n => (PairAbove(ret[m], ret[n]) \/ PairEqual(ret[m], ret[n]))
        /\ \A m, n \in 1..Len(ret) :
             (ret[m].posted_dt = None /\ ret[n].posted_dt # None) => n < m

\* A Posting without a date came first and went last, and two Postings of
\* one date and one source, the later date of the list, kept their order.
C13_Witness ==
    /\ pc = "returned" /\ Len(arg) = 3
    /\ arg[1].posted_dt = None /\ ret[3] = arg[1]
    /\ PairEqual(arg[2], arg[3]) /\ arg[2] # arg[3]
    /\ ret[1] = arg[2] /\ ret[2] = arg[3]

\* The Postings of the scenario: one date, 2024-05-01, sources "x" and "a".
ScenarioA == Dated(<<"x">>, <<"u">>, 31)
ScenarioB == Dated(<<"a">>, <<"u">>, 31)

\* C14 as stated: for the input [A, B] the output is [B, A].
C14_BBeforeA ==
    (pc = "returned" /\ arg = << ScenarioA, ScenarioB >>)
        => ret = << ScenarioB, ScenarioA >>

\* C14: given A(date=2024-05-01, source="x") and B(date=2024-05-01,
\* source="a") in input order [A, B], A sorts before B (descending date, then
\* descending source): the output is [A, B]; and so it is for the input
\* [B, A].
C14_ABeforeB ==
    (pc = "returned" /\ arg \in { << ScenarioA, ScenarioB >>, << ScenarioB, ScenarioA >> })
        => ret = << ScenarioA, ScenarioB >>

\* The sort has run on the scenario's input [A, B].
C14_Witness ==
    /\ pc = "returned" /\ arg = << ScenarioA, ScenarioB >>
    /\ ret[1].source = <<"x">> /\ ret[2].source = <<"a">>

\* ------------------------------------------------------------ the walk end to end

\* The fetches of the first walk of the call of crawl_site that is running.
FirstWalk == IF log = <<>> THEN <<>> ELSE log[1]

\* The Postings of the page a fetch was answered with; an empty body holds no
\* card.
PageJobs(f) ==
    IF f.resp.text.empty THEN <<>>
    ELSE extract_jobs_from_html(f.resp.text.dom, Cfg, Cfg.name,
                                Pages[1].default_location).jobs

\* The next link of the page a fetch was answered with; an empty body holds
\* no link.
PageNext(f) ==
    IF f.resp.text.empty THEN None
    ELSE find_next_url(f.resp.text.dom, Cfg.selectors)

\* The Postings of the pages of a list of fetches, page after page.
RECURSIVE ChainJobs(_)
ChainJobs(fs) ==
    IF fs = <<>> THEN <<>> ELSE PageJobs(Head(fs)) \o ChainJobs(Tail(fs))

\* crawl_site is about to return and the site has one start URL.
OneWalkDone == pc = "walk" /\ w > Len(Pages) /\ Len(Pages) = 1

\* The case of C15: every fetch succeeded, the Postings of the pages have
\* distinct keys and are fewer than the cap, and the last page's next link,
\* if it has one, leads to a page the walk has not been at.
ChainCase ==
    LET L == FirstWalk
    IN  /\ \A i \in 1..Len(L) : ~FetchFailed(L[i].resp)
        /\ Cardinality(Keys(ChainJobs(L))) = Len(ChainJobs(L))
        /\ Len(ChainJobs(L)) < max_per_site
        /\ \A i \in 1..Len(L) :
             Truthy(PageNext(L[i])) => \A k \in 1..i : L[k].url # PageNext(L[i])

\* C15: for one start URL, in the case above, crawl_site returns the
\* Postings of the pages it fetched, page after page and in extraction order
\* within a page; the pages are those of the chain from the start URL, each
\* the target of the next link of the one before; and they are max_pages
\* pages, or fewer when the chain ends before (the last page has no next
\* link).
C15_EndToEnd ==
    (OneWalkDone /\ ChainCase) =>
        LET L == FirstWalk
        IN  /\ results = ChainJobs(L)
            /\ L # <<>> => L[1].url = Pages[1].url
            /\ \A i \in 1..(Len(L) - 1) : L[i + 1].url = PageNext(L[i])
            /\ \/ Len(L) = Max(0, MaxPages)
               \/ Len(L) < MaxPages /\ L # <<>> /\ ~Truthy(PageNext(L[Len(L)]))

\* Two pages linked by rel=next, two cards each, max_pages = 2: four Postings.
C15_Witness ==
    /\ OneWalkDone /\ ChainCase
    /\ MaxPages = 2 /\ Len(FirstWalk) = 2
    /\ \A i \in 1..2 : Len(PageJobs(FirstWalk[i])) = 2
    /\ \E a \in Range(FirstWalk[1].resp.text.dom.anchors) :
         a.rel /\ a.href = FirstWalk[2].url
    /\ Len(results) = 4

\* ------------------------------------------------------------ the pause

\* C16: the pause is taken only when a further fetch follows: after a sleep
\* the walk's next step is a fetch (of the resolved next URL), never the end
\* of the walk.
C16_SleepThenFetch ==
    [][(pc = "loop" /\ slept)
          => /\ Len(log') = Len(log)
             /\ Len(CurLog') = Len(CurLog) + 1
             /\ CurLog'[Len(CurLog')].url = url]_vars

\* ------------------------------------------------------------ what counts as a fetched page

\* C17: every fetch answered with status 200, whatever its body, moves the
\* walk on to the extraction of the page, and only a status other than 200 or
\* a transport error ends the walk as a failed fetch.
C17_Every200Extracts ==
    [][(pc = "loop" /\ Len(log') = Len(log) /\ Len(CurLog') = Len(CurLog) + 1)
          => LET f == CurLog'[Len(CurLog')]
             IN  IF FetchFailed(f.resp) THEN pc' = "walk" ELSE pc' = "extract"]_vars

\* ------------------------------------------------------------ the two passes

\* C18: in the list one call of extract_jobs_from_html returns, no Posting
\* of the fallback pass has the identity key of a Posting of the structured
\* pass, also when their URLs differ in letter case or surrounding whitespace
\* only; and the Postings of the structured pass come before those of the
\* fallback pass.
C18_FallbackNotCapturedByKey ==
    (pc = "returned" /\ ~ret.raised) =>
        /\ \A f \in Range(FallbackPostings), s \in Range(StructuredJobs) :
             key(f) # key(s)
        /\ \A m, n \in 1..Len(ret.jobs) :
             (m < n /\ ret.jobs[m].posted = None) => ret.jobs[n].posted = None

\* ------------------------------------------------------------ the text heuristic

\* The anchors whose text holds any of the phrases.
AnyPhraseAnchors == UNION { TextAnchors(n) : n \in 1..Len(NextPhrases) }

\* C19: when neither next_selector nor rel=next gives a result, the result
\* is the target of the first anchor in document order whose text holds any
\* of the phrases (that anchor having an href), whatever the order the
\* phrases are listed in.
C19_FirstAnchorOfAnyPhrase ==
    (pc = "returned" /\ ~ret.raised) =>
        LET I == 1..Len(NextArgAnchors)
        IN  \A i \in I :
              ( /\ \A s \in I : ~SelTier(s) /\ ~RelTier(s)
                /\ IsFirst(i, AnyPhraseAnchors)
                /\ Truthy(NextArgAnchors[i].href) )
              => ret.url = Target(i)

\* ------------------------------------------------------------ main after the crawl

\* main from `# Deduplicate` to `# Sort`: what the merged list becomes.
Stage(merged, days, today, keywords, locations) ==
    SortJobs(filter_jobs(DateFilter(Deduplicate(merged), days, today),
                         keywords, locations))

\* all_jobs after `all_jobs.extend(jobs)` for the sites' lists taken in the
\* order given.
RECURSIVE Extend(_, _)
Extend(lists, order) ==
    IF order = <<>> THEN <<>>
    ELSE lists[Head(order)] \o Extend(lists, Tail(order))

\* The longest list a site gives.
MaxSiteJobs == 2

\* What crawl_site may return for a site: Postings of the site's name with
\* distinct keys.
SiteLists(source) ==
    { js \in SeqsUpTo({ Dated(source, <<"u">>, 31), Dated(source, <<"v">>, 31),
                        Undated(source, <<"u">>) }, MaxSiteJobs) :
        Cardinality(Keys(js)) = Len(js) }

\* The orders two sites' lists are merged in.
MergeOrders == { <<1, 2>>, <<2, 1>> }

InitStage ==
    /\ arg \in { [lists |-> << la, lx >>, order |-> o, days |-> n, today |-> 62,
                  keywords |-> ks, locations |-> <<>>] :
                   la \in SiteLists(<<"a">>), lx \in SiteLists(<<"x">>),
                   o \in MergeOrders, n \in { 0, 30 },
                   ks \in { <<>>, << <<"t">> >> } }
    /\ ret = None
    /\ pc = "call"
    /\ NoCrawl

\* main runs from the deduplication to the sort on the merged list.
CallStage ==
    /\ pc = "call"
    /\ ret' = Stage(Extend(arg.lists, arg.order), arg.days, arg.today,
                    arg.keywords, arg.locations)
    /\ pc' = "returned"
    /\ UNCHANGED << crawlVars, arg >>

SpecStage == InitStage /\ [][CallStage]_vars

\* C20: for the same per-site lists, every order of merging them gives the
\* same final list, also when two sites gave Postings of one identity key
\* and different fields.
C20_MergeOrderIndependent ==
    pc = "returned" =>
        \A o \in MergeOrders :
            ret = Stage(Extend(arg.lists, o), arg.days, arg.today,
                        arg.keywords, arg.locations)

====
